---- MODULE Spec2Model ----
(***************************************************************************)
(* Model of GetACLBuilder (azure/storage/container/requests/               *)
(* get_acl_builder.rs): a typestate request builder whose setters each     *)
(* consume the builder and return a new one, and whose finalize() builds   *)
(* the URL and headers, issues one GET and chains the status check and    *)
(* the response parse behind it.                                           *)
(*                                                                         *)
(* Strings are sequences of one-character strings, so that formatting     *)
(* (format!, Display for u64) is modelled by what it does and substrings   *)
(* of the URL can be counted.  Option<T> is a sequence of length <= 1.     *)
(***************************************************************************)
EXTENDS Integers, Sequences, FiniteSets, TLC

VARIABLES
    builder,      \* the live GetACLBuilder value (the struct's fields + marker)
    calls,        \* history: the setter calls made so far, in order
    pc,           \* "building" | "awaiting_response" | "extracted" | "done" | "panicked"
    requests,     \* the requests handed to Client::perform_request
    steps,        \* history: the steps of finalize's chain, in order
    reqResult,    \* Option: result of perform_request ("Ok" | "Err")
    status,       \* Option: HTTP status of the response
    checkResult,  \* Option: result of check_status_extract_headers_and_body
    parseResult,  \* Option: result of GetACLResponse::from_response
    outcome       \* Option: what the future returned by finalize resolves to

vars == <<builder, calls, pc, requests, steps, reqResult, status, checkResult,
          parseResult, outcome>>

----------------------------------------------------------------------------
(* Bounds and input sets *)

MaxCalls == 4

None == <<>>
Some(v) == <<v>>

Accounts == { <<"a","c","m","e">>, <<"d","e","v","1">> }
Names == { <<"d","o","c","s">>, <<"l","o","g","-","1">> }
Timeouts == { 0, 120 }
RequestIds == { "req-A", "req-B" }
LeaseIds == { "lease-1", "lease-2" }
Statuses == { 200, 201, 404 }

----------------------------------------------------------------------------
(* Strings *)

Digits == <<"0","1","2","3","4","5","6","7","8","9">>

\* Display for u64, as format!("{}", n) renders it: decimal, no padding.
RECURSIVE u64_to_string(_)
u64_to_string(n) ==
    IF n < 10 THEN <<Digits[n + 1]>>
    ELSE u64_to_string(n \div 10) \o <<Digits[(n % 10) + 1]>>

UriScheme == <<"h","t","t","p","s",":","/","/">>
UriHost == <<".","b","l","o","b",".","c","o","r","e",".",
             "w","i","n","d","o","w","s",".","n","e","t","/">>
UriQuery == <<"?","r","e","s","t","y","p","e","=","c","o","n","t","a","i","n","e","r",
              "&","c","o","m","p","=","a","c","l">>
TimeoutKey == <<"t","i","m","e","o","u","t","=">>

----------------------------------------------------------------------------
(* The builder: struct GetACLBuilder<'a, ContainerNameSet> *)

\* The struct's fields; marker is the ContainerNameSet type parameter (No | Yes).
GetACLBuilder(m, cl, cn, t, cr, l) ==
    [marker |-> m, client |-> cl, container_name |-> cn, timeout |-> t,
     client_request_id |-> cr, lease_id |-> l]

\* GetACLBuilder::new
new(cl) == GetACLBuilder("No", cl, None, None, None, None)

\* ContainerNameRequired::container_name: self.container_name.unwrap()
container_name(b) == b.container_name[1]

with_container_name_keeps_old(b, n) ==
    GetACLBuilder("Yes", b.client, b.container_name, b.timeout,
                  b.client_request_id, b.lease_id)

with_container_name_drops_lease(b, n) ==
    GetACLBuilder("Yes", b.client, Some(n), b.timeout, b.client_request_id, None)

\* ContainerNameSupport::with_container_name, O = GetACLBuilder<'a, Yes>
with_container_name(b, n) ==
    GetACLBuilder("Yes", b.client, Some(n), b.timeout, b.client_request_id,
                  b.lease_id)

with_timeout_resets_lease(b, t) ==
    GetACLBuilder(b.marker, b.client, b.container_name, Some(t),
                  b.client_request_id, None)

\* TimeoutSupport::with_timeout, O = GetACLBuilder<'a, ContainerNameSet>
with_timeout(b, t) ==
    GetACLBuilder(b.marker, b.client, b.container_name, Some(t),
                  b.client_request_id, b.lease_id)

with_client_request_id_drops_timeout(b, c) ==
    GetACLBuilder(b.marker, b.client, b.container_name, None, Some(c), b.lease_id)

\* ClientRequestIdSupport::with_client_request_id
with_client_request_id(b, c) ==
    GetACLBuilder(b.marker, b.client, b.container_name, b.timeout, Some(c),
                  b.lease_id)

with_lease_id_clears_crid(b, l) ==
    GetACLBuilder(b.marker, b.client, b.container_name, b.timeout, None, Some(l))

\* LeaseIdSupport::with_lease_id
with_lease_id(b, l) ==
    GetACLBuilder(b.marker, b.client, b.container_name, b.timeout,
                  b.client_request_id, Some(l))

----------------------------------------------------------------------------
(* Collaborators outside this file *)

\* TimeoutOption::to_uri_parameter: the query parameter, when a timeout is set.
to_uri_parameter(b) ==
    IF b.timeout = None THEN None
    ELSE Some(TimeoutKey \o u64_to_string(b.timeout[1]))

ClientRequestIdHeader == "x-ms-client-request-id"
LeaseIdHeader == "x-ms-lease-id"

\* ClientRequestIdOption::add_header: attaches the header when the id is set.
add_header_client_request_id(b, hs) ==
    IF b.client_request_id = None THEN hs
    ELSE Append(hs, [name |-> ClientRequestIdHeader, value |-> b.client_request_id[1]])

\* LeaseIdOption::add_header: attaches the header when the lease id is set.
add_header_lease_id(b, hs) ==
    IF b.lease_id = None THEN hs
    ELSE Append(hs, [name |-> LeaseIdHeader, value |-> b.lease_id[1]])

\* check_status_extract_headers_and_body(response, expected): a transport
\* failure or a status other than the expected one is an error; otherwise the
\* body is read, which may fail too.
check_status_extract_headers_and_body(arrived, s, expected, bodyOk) ==
    IF ~arrived THEN "Err"
    ELSE IF s # expected THEN "Err"
    ELSE IF bodyOk THEN "Ok" ELSE "Err"

\* GetACLResponse::from_response(&body, &headers): a Result.
from_response(wellFormed) == IF wellFormed THEN "Ok" ELSE "Err"

----------------------------------------------------------------------------
(* finalize *)

\* format!("https://{}.blob.core.windows.net/{}?restype=container&comp=acl", ..)
format_uri(account, name) == UriScheme \o account \o UriHost \o name \o UriQuery

finalize_uri_always_appends(b) ==
    LET nm == to_uri_parameter(b)
    IN  format_uri(b.client.account, container_name(b)) \o <<"&">>
            \o (IF nm # None THEN nm[1] ELSE <<>>)

\* let mut uri = format!(..); if let Some(nm) = to_uri_parameter { uri = "{}&{}" }
finalize_uri(b) ==
    LET uri == format_uri(b.client.account, container_name(b))
        nm == to_uri_parameter(b)
    IN  IF nm # None THEN uri \o <<"&">> \o nm[1] ELSE uri

finalize_headers_crid_twice(b) ==
    add_header_client_request_id(b, add_header_client_request_id(b, <<>>))

\* the closure given to perform_request: both add_header calls, in order
finalize_headers(b) ==
    add_header_lease_id(b, add_header_client_request_id(b, <<>>))

StatusCode_CREATED == 200 + 1

\* StatusCode::OK, the status finalize asks the check to expect
StatusCode_OK == 200

after_request_then(r) == "awaiting_response"

\* done(req).from_err().and_then(..): the check runs only on Ok(req)
after_request(r) == IF r = "Ok" THEN "awaiting_response" ELSE "done"

after_check_then(r) == "extracted"

\* .and_then(|(headers, body)| ..): the parse runs only on Ok((headers, body))
after_check(r) == IF r = "Ok" THEN "extracted" ELSE "done"

----------------------------------------------------------------------------
(* Client::perform_request(&uri, &Method::GET, closure, None): the request
   handed to the transport, with the headers the closure attached. *)
perform_request(uri, method, headers) ==
    [method |-> method, uri |-> uri, headers |-> headers]

\* The steps check_status_extract_headers_and_body takes on a response.
check_steps(arrived, s, expected) ==
    IF ~arrived THEN <<>>
    ELSE IF s # expected THEN <<"check_status">>
    ELSE <<"check_status", "extract_body">>

----------------------------------------------------------------------------
(* State machine *)

Call(op, v) == [op |-> op, value |-> v]

Init ==
    /\ \E a \in Accounts : builder = new([account |-> a])
    /\ calls = <<>>
    /\ pc = "building"
    /\ requests = <<>>
    /\ steps = <<>>
    /\ reqResult = None
    /\ status = None
    /\ checkResult = None
    /\ parseResult = None
    /\ outcome = None

chain == <<pc, requests, steps, reqResult, status, checkResult, parseResult, outcome>>

\* Every setter takes self by value: it acts on a builder not yet consumed.
WithContainerName ==
    /\ pc = "building"
    /\ Len(calls) < MaxCalls
    /\ \E n \in Names :
          /\ builder' = with_container_name(builder, n)
          /\ calls' = Append(calls, Call("with_container_name", n))
    /\ UNCHANGED chain

WithTimeout ==
    /\ pc = "building"
    /\ Len(calls) < MaxCalls
    /\ \E t \in Timeouts :
          /\ builder' = with_timeout(builder, t)
          /\ calls' = Append(calls, Call("with_timeout", t))
    /\ UNCHANGED chain

WithClientRequestId ==
    /\ pc = "building"
    /\ Len(calls) < MaxCalls
    /\ \E c \in RequestIds :
          /\ builder' = with_client_request_id(builder, c)
          /\ calls' = Append(calls, Call("with_client_request_id", c))
    /\ UNCHANGED chain

WithLeaseId ==
    /\ pc = "building"
    /\ Len(calls) < MaxCalls
    /\ \E l \in LeaseIds :
          /\ builder' = with_lease_id(builder, l)
          /\ calls' = Append(calls, Call("with_lease_id", l))
    /\ UNCHANGED chain

\* finalize(self), defined on GetACLBuilder<'a, Yes> only: builds the URL, hands
\* the request to perform_request and chains the rest behind its Result.
Finalize ==
    /\ pc = "building"
    /\ builder.marker = "Yes"
    /\ IF builder.container_name = None
       THEN /\ pc' = "panicked"
            /\ UNCHANGED <<requests, steps, reqResult, outcome>>
       ELSE \E r \in {"Ok", "Err"} :
              /\ requests' = Append(requests,
                     perform_request(finalize_uri(builder), "GET",
                                     finalize_headers(builder)))
              /\ steps' = Append(steps, "request")
              /\ reqResult' = Some(r)
              /\ pc' = after_request(r)
              /\ outcome' = IF after_request(r) = "done" THEN Some(r) ELSE None
    /\ UNCHANGED <<builder, calls, status, checkResult, parseResult>>

\* The first and_then: check_status_extract_headers_and_body(response, OK).
CheckStatus ==
    /\ pc = "awaiting_response"
    /\ \E arrived \in BOOLEAN, s \in Statuses, bodyOk \in BOOLEAN :
          LET r == check_status_extract_headers_and_body(arrived, s, StatusCode_OK,
                                                         bodyOk)
          IN  /\ status' = IF arrived THEN Some(s) ELSE None
              /\ steps' = steps \o check_steps(arrived, s, StatusCode_OK)
              /\ checkResult' = Some(r)
              /\ pc' = after_check(r)
              /\ outcome' = IF after_check(r) = "done" THEN Some(r) ELSE None
    /\ UNCHANGED <<builder, calls, requests, reqResult, parseResult>>

\* The second and_then: done(GetACLResponse::from_response(&body, &headers)).
Parse ==
    /\ pc = "extracted"
    /\ \E wellFormed \in BOOLEAN :
          /\ parseResult' = Some(from_response(wellFormed))
          /\ outcome' = Some(from_response(wellFormed))
    /\ steps' = Append(steps, "parse")
    /\ pc' = "done"
    /\ UNCHANGED <<builder, calls, requests, reqResult, status, checkResult>>

Next ==
    \/ WithContainerName
    \/ WithTimeout
    \/ WithClientRequestId
    \/ WithLeaseId
    \/ Finalize
    \/ CheckStatus
    \/ Parse

Spec == Init /\ [][Next]_vars

----------------------------------------------------------------------------
(* Vocabulary of the properties *)

OptionalSetters == {"with_timeout", "with_client_request_id", "with_lease_id"}

CallsOf(op) == { i \in 1..Len(calls) : calls[i].op = op }

Max(S) == CHOOSE m \in S : \A x \in S : x <= m

\* The value last given to a setter, None when it was never called.
LastValue(op) ==
    IF CallsOf(op) = {} THEN None ELSE Some(calls[Max(CallsOf(op))].value)

\* The step just taken was a call of setter op.
SetterStep(op) ==
    /\ Len(calls') = Len(calls) + 1
    /\ calls'[Len(calls')].op = op

Occurrences(sub, s) ==
    Cardinality({ i \in 1..(Len(s) - Len(sub) + 1) :
                    SubSeq(s, i, i + Len(sub) - 1) = sub })

HeaderValues(hs, name) ==
    LET F[i \in 0..Len(hs)] ==
            IF i = 0 THEN <<>>
            ELSE IF hs[i].name = name THEN Append(F[i - 1], hs[i].value)
            ELSE F[i - 1]
    IN  F[Len(hs)]

IsPrefix(s, t) == Len(s) <= Len(t) /\ s = SubSeq(t, 1, Len(s))

Finalized == pc \in {"awaiting_response", "extracted", "done"}

\* The URL the interface documents, written out for the inputs of the model.
DocumentedUri(account, name) ==
    <<"h","t","t","p","s",":","/","/">> \o account
        \o <<".","b","l","o","b",".","c","o","r","e",".",
             "w","i","n","d","o","w","s",".","n","e","t">>
        \o <<"/">> \o name
        \o <<"?","r","e","s","t","y","p","e","=","c","o","n","t","a","i","n","e","r">>
        \o <<"&","c","o","m","p","=","a","c","l">>

TimeoutText(t) ==
    CASE t = 0 -> <<"0">>
      [] t = 120 -> <<"1","2","0">>

\* The builder the history of calls describes: each field holds the value
\* last given to its setter.
FromHistory ==
    GetACLBuilder(IF CallsOf("with_container_name") = {} THEN "No" ELSE "Yes",
                  builder.client,
                  LastValue("with_container_name"),
                  LastValue("with_timeout"),
                  LastValue("with_client_request_id"),
                  LastValue("with_lease_id"))

----------------------------------------------------------------------------
(* C1: finalize is enabled only once the container name is set: a builder
   marked Yes always holds a present container_name (so container_name()
   never unwraps None, and finalize never panics), the marker is Yes exactly
   when with_container_name was called, and a builder marked No has no
   finalize. *)
C1_FinalizeNeedsName ==
    /\ builder.marker \in {"No", "Yes"}
    /\ builder.marker = "Yes" => builder.container_name # None
    /\ builder.marker = "Yes" <=> CallsOf("with_container_name") # {}
    /\ (ENABLED Finalize) => builder.marker = "Yes"
    /\ Finalized => builder.marker = "Yes" /\ builder.container_name # None
    /\ pc # "panicked"

C1_Witness ==
    /\ pc = "done"
    /\ Len(calls) = 4
    /\ calls[1].op # "with_container_name"
    /\ calls[4].op # "with_container_name"

(* C2: with no optional field set, the URL handed to perform_request is
   exactly https://{account}.blob.core.windows.net/{name}?restype=container&comp=acl,
   with nothing after it. *)
C2_PlainUri ==
    (Finalized /\ \A i \in 1..Len(calls) : calls[i].op = "with_container_name")
        => /\ Len(requests) = 1
           /\ requests[1].uri =
                DocumentedUri(builder.client.account,
                              LastValue("with_container_name")[1])

C2_Witness ==
    /\ pc = "done"
    /\ outcome = Some("Ok")
    /\ Len(calls) = 2
    /\ \A i \in 1..Len(calls) : calls[i].op = "with_container_name"

(* C3: the URL ends in &timeout={value}, once, with the value last given to
   with_timeout, wherever with_timeout came among the other setters; it holds
   no timeout parameter when with_timeout was never called. *)
C3_TimeoutOnce ==
    Finalized =>
        LET uri == requests[1].uri
            t == LastValue("with_timeout")
            plain == DocumentedUri(builder.client.account,
                                   LastValue("with_container_name")[1])
        IN  /\ Occurrences(TimeoutKey, uri) = IF t = None THEN 0 ELSE 1
            /\ t = None => uri = plain
            /\ t # None =>
                 uri = plain \o <<"&","t","i","m","e","o","u","t","=">>
                             \o TimeoutText(t[1])

C3_Witness ==
    /\ pc = "done"
    /\ Len(calls) = 4
    /\ calls[1].op = "with_timeout"
    /\ calls[2].op = "with_timeout"
    /\ calls[1].value # calls[2].value
    /\ calls[3].op = "with_lease_id"
    /\ calls[4].op = "with_container_name"

(* C4, as claimed: a 200 response, received in full, always yields a
   successfully parsed ACL response, and any other status an error without a
   parse attempt. *)
C4_Original ==
    pc = "done" =>
        /\ (status = Some(200) /\ checkResult = Some("Ok")) => outcome = Some("Ok")
        /\ (status # None /\ status # Some(200)) =>
                outcome = Some("Err") /\ parseResult = None

(* C4, amended: from_response is invoked only after the check accepted status
   200 and never for another status; a non-200 status yields an error without
   a parse attempt; a 200 response received in full is handed to
   from_response exactly once, and finalize's outcome is from_response's
   result, a parse error included. *)
C4_ParseOnlyAfter200 ==
    /\ parseResult # None => status = Some(200) /\ checkResult = Some("Ok")
    /\ Occurrences(<<"parse">>, steps) = IF parseResult = None THEN 0 ELSE 1
    /\ (pc = "done" /\ status # None /\ status # Some(200)) =>
            outcome = Some("Err") /\ parseResult = None
    /\ (pc = "done" /\ status = Some(200) /\ checkResult = Some("Ok")) =>
            parseResult # None /\ outcome = parseResult

C4_Witness ==
    /\ pc = "done"
    /\ status = Some(200)
    /\ parseResult = Some("Ok")
    /\ outcome = Some("Ok")

(* C5: the request carries exactly one x-ms-client-request-id header when
   with_client_request_id was called (however often), with the value last
   given, and none otherwise; likewise x-ms-lease-id; no other header is
   attached; and the URL is the same whatever the two fields hold. *)
C5_OneHeaderEach ==
    Finalized =>
        LET req == requests[1]
        IN  /\ HeaderValues(req.headers, "x-ms-client-request-id")
                  = LastValue("with_client_request_id")
            /\ HeaderValues(req.headers, "x-ms-lease-id") = LastValue("with_lease_id")
            /\ Len(req.headers) = Len(LastValue("with_client_request_id"))
                                    + Len(LastValue("with_lease_id"))
            /\ \A c \in {None} \cup {Some(x) : x \in RequestIds},
                  l \in {None} \cup {Some(x) : x \in LeaseIds} :
                  finalize_uri([builder EXCEPT !.client_request_id = c,
                                               !.lease_id = l]) = req.uri

C5_Witness ==
    /\ pc = "done"
    /\ Len(calls) = 4
    /\ calls[2].op = "with_client_request_id"
    /\ calls[3].op = "with_client_request_id"
    /\ calls[2].value # calls[3].value
    /\ calls[4].op = "with_lease_id"

(* C6: every failure ends finalize with an error and nothing after it: at
   most one request, a GET, is ever issued; after a failed perform_request
   neither the status check nor the parse runs; after a failed check the
   parse does not run; the outcome is Ok only when all three steps were. *)
C6_ErrorsPropagate ==
    /\ Len(requests) <= 1
    /\ Occurrences(<<"request">>, steps) = Len(requests)
    /\ \A i \in 1..Len(requests) : requests[i].method = "GET"
    /\ reqResult = Some("Err") =>
          /\ pc = "done" /\ outcome = Some("Err")
          /\ status = None /\ checkResult = None /\ parseResult = None
          /\ steps = <<"request">>
    /\ checkResult = Some("Err") =>
          pc = "done" /\ outcome = Some("Err") /\ parseResult = None
    /\ parseResult = Some("Err") => pc = "done" /\ outcome = Some("Err")
    /\ pc = "done" => outcome # None
    /\ outcome = Some("Ok") =>
          reqResult = Some("Ok") /\ checkResult = Some("Ok") /\ parseResult = Some("Ok")

C6_Witness ==
    /\ pc = "done"
    /\ reqResult = Some("Err")
    /\ outcome = Some("Err")
    /\ Len(requests) = 1

(* C7: a call of with_timeout, with_client_request_id or with_lease_id sets
   its own field to the value given and leaves the client, the container
   name, the marker and the other two optional fields as they were; it moves
   nothing else (no request, no step of finalize). *)
C7_OptionalSettersFrame ==
    [][ /\ SetterStep("with_timeout") =>
              builder' = [builder EXCEPT
                            !.timeout = Some(calls'[Len(calls')].value)]
        /\ SetterStep("with_client_request_id") =>
              builder' = [builder EXCEPT
                            !.client_request_id = Some(calls'[Len(calls')].value)]
        /\ SetterStep("with_lease_id") =>
              builder' = [builder EXCEPT
                            !.lease_id = Some(calls'[Len(calls')].value)]
        /\ (\E op \in OptionalSetters : SetterStep(op)) => chain' = chain
      ]_vars

C7_Witness ==
    /\ pc = "building"
    /\ Len(calls) = 4
    /\ calls[1].op = "with_container_name"
    /\ calls[2].op = "with_timeout"
    /\ calls[3].op = "with_client_request_id"
    /\ calls[4].op = "with_lease_id"
    /\ builder.marker = "Yes"
    /\ builder.timeout = Some(calls[2].value)
    /\ builder.client_request_id = Some(calls[3].value)

\* Setters f (values A) and g (values B) give the same builder in either order.
Commute(f(_, _), A, g(_, _), B) ==
    \A x \in A, y \in B : g(f(builder, x), y) = f(g(builder, y), x)

\* Of two calls of setter f, the later one decides.
LastWins(f(_, _), A) ==
    \A x \in A, y \in A : f(f(builder, x), y) = f(builder, y)

(* C8: setters on distinct fields commute: the builder any chain of calls
   produces holds, in each field, the value last given to that field's
   setter, whatever the order of the calls (every order of the four setters
   from new() is among the chains), hence the same URL and headers at
   finalize; and on every such builder any two setters of distinct fields
   give the same builder in either order, while of two calls of one setter
   the later one decides. *)
C8_SettersCommute ==
    /\ builder = FromHistory
    /\ Finalized =>
          /\ requests[1].uri = finalize_uri(FromHistory)
          /\ requests[1].headers = finalize_headers(FromHistory)
    /\ pc = "building" =>
          /\ Commute(with_container_name, Names, with_timeout, Timeouts)
          /\ Commute(with_container_name, Names, with_client_request_id, RequestIds)
          /\ Commute(with_container_name, Names, with_lease_id, LeaseIds)
          /\ Commute(with_timeout, Timeouts, with_client_request_id, RequestIds)
          /\ Commute(with_timeout, Timeouts, with_lease_id, LeaseIds)
          /\ Commute(with_client_request_id, RequestIds, with_lease_id, LeaseIds)
          /\ LastWins(with_container_name, Names)
          /\ LastWins(with_timeout, Timeouts)
          /\ LastWins(with_client_request_id, RequestIds)
          /\ LastWins(with_lease_id, LeaseIds)

C8_Witness ==
    /\ pc = "done"
    /\ Len(calls) = 4
    /\ calls[1].op = "with_lease_id"
    /\ calls[2].op = "with_timeout"
    /\ calls[3].op = "with_container_name"
    /\ calls[4].op = "with_client_request_id"

FinalizeSteps == <<"request", "check_status", "extract_body", "parse">>

(* C9: the steps of one finalize happen in the order request, check status,
   extract body, parse: what has happened so far is always a prefix of that
   order, the status check happens only after perform_request returned Ok,
   the parse only after the check and the body extraction succeeded; and once
   finalize has consumed the builder no setter acts on it and no second
   request is issued. *)
C9_StepOrder ==
    /\ [](/\ IsPrefix(steps, FinalizeSteps)
          /\ (steps # <<>>) => (Len(requests) = 1 /\ reqResult # None)
          /\ (Len(steps) >= 2) => reqResult = Some("Ok")
          /\ (Len(steps) >= 4) => (checkResult = Some("Ok") /\ status = Some(200))
          /\ (pc = "building") <=> (steps = <<>>))
    /\ [][ pc # "building" =>
              /\ builder' = builder
              /\ calls' = calls
              /\ requests' = requests
              /\ pc' # "building"
              /\ IsPrefix(steps, steps') ]_vars

C9_Witness ==
    /\ pc = "done"
    /\ steps = <<"request", "check_status", "extract_body", "parse">>
    /\ Len(calls) >= 2

(* C10: with_container_name, called on a builder in either state, returns a
   builder marked Yes that holds the name given, with timeout,
   client_request_id and lease_id carried over; no step takes a builder from
   Yes back to No, and no step clears a field that is set. *)
C10_NameSetAbsorbing ==
    [][ /\ SetterStep("with_container_name") =>
              builder' = [builder EXCEPT
                            !.marker = "Yes",
                            !.container_name = Some(calls'[Len(calls')].value)]
        /\ builder.marker = "Yes" => builder'.marker = "Yes"
        /\ builder.container_name # None => builder'.container_name # None
        /\ builder.timeout # None => builder'.timeout # None
        /\ builder.client_request_id # None => builder'.client_request_id # None
        /\ builder.lease_id # None => builder'.lease_id # None
      ]_vars

C10_Witness ==
    /\ Len(calls) = 4
    /\ calls[1].op = "with_lease_id"
    /\ calls[2].op = "with_container_name"
    /\ calls[3].op = "with_timeout"
    /\ calls[4].op = "with_container_name"
    /\ calls[2].value # calls[4].value
    /\ builder.marker = "Yes"
    /\ builder.container_name = Some(calls[4].value)
    /\ builder.lease_id = Some(calls[1].value)

====
